---- MODULE Spec2Model ----
(***************************************************************************)
(* State-machine model of the unified logger: the Discord webhook sink     *)
(* (DiscordLogger: queue, background batch task, retry loop, cleanup) and  *)
(* the fan-out of UnifiedLogger._log_to_all.                               *)
(*                                                                         *)
(* Records are numbered 1, 2, 3, ... in the order of the log() calls that  *)
(* created them, so the order of two records is the order of their ids.    *)
(* Time is kept relative: batch_age is time.time() - last_batch_time       *)
(* (saturating at batch_interval, the only value it is compared with) and  *)
(* sleep_left[t] is what is left of the asyncio.sleep task t is in.        *)
(***************************************************************************)
EXTENDS Integers, Sequences, FiniteSets, TLC

\* ------------------------------------------------------------- bounds
MaxRecords == 5      \* records created by log()
MaxInit == 1         \* initialize() calls on the sink
MaxCleanup == 2      \* cleanup() calls on the sink
MaxWorkers == 2      \* batch tasks there is room for
MaxReinitRecords == 2   \* records created by log() in SpecReinit
MaxAppRecords == 2      \* calls of UnifiedLogger._log_to_all in SpecApp
MaxBatchRecords == 12   \* records created by log() in SpecBatch
MaxLiveRecords == 3     \* records created by log() in SpecLive, fewer than batch_size
MaxUpdateKeys == 2      \* keyword arguments of one LoggerConfig.update call
MaxScopeInit == 2       \* initialize() calls on the sink in SpecScope

\* -------------------------------------------------- program constants
batch_size == 5
batch_interval == 5
max_retries == 3
retry_delay == 1
EmbedsPerPost == 10
WorkerNap == 1
InitCalls == 2       \* initialize() calls AsyncLogger.initialize makes on the sink
CleanupNap == 1      \* the sleep of AsyncLogger.cleanup after the Discord sink

OK204 == 204
RateLimited == 429
BadGateway == 502
BadRequest == 400
NotFound == 404
Unauthorized == 401
NetworkError == 0    \* no response: the connection failed
TimedOut == 1        \* no response within the ClientTimeout of the request

GatewayErrors == {502, 503, 504}
DeliveryStatuses == {OK204, RateLimited, BadRequest, Unauthorized, NotFound, NetworkError,
                     TimedOut}
                        \cup GatewayErrors
ValidationStatuses == {OK204, NotFound, Unauthorized, BadGateway, NetworkError}
\* the retry_after field of a 429 body: absent, or a number of seconds
RetryAfterValues == {<<>>, <<2>>}

Main == 0                       \* the task that calls initialize() and cleanup()
Workers == 1..MaxWorkers           \* the tasks created by initialize()
Tasks == {Main} \cup Workers

VARIABLES
    _running,        \* DiscordLogger._running
    message_queue,   \* DiscordLogger.message_queue (record ids)
    batch_age,       \* time.time() - DiscordLogger.last_batch_time
    _session,        \* DiscordLogger._session: "None" or "open"
    _batch_task,     \* DiscordLogger._batch_task: 0 (None) or a worker
    _lock,           \* DiscordLogger._lock: 0 (free) or the worker holding it
    url_ok,          \* discord_webhook_url starts with the Discord prefix
    pc,              \* where each task is suspended
    retries,         \* the retries argument of the _send_batch a task is in
    payload,         \* the embeds of the request a task has in flight
    sleep_left,      \* remaining time of the asyncio.sleep a task is in
    created,         \* number of batch tasks created so far
    recreated,       \* history: the request a task has in flight is the first on its session
    enabled_loggers, \* LoggerConfig.enabled_loggers
    config,          \* the other fields of the LoggerConfig, NoConfig if there is none
    raised,          \* history: the last LoggerConfig call raised ValueError
    requested,       \* history: the enabled_loggers argument of the last constructor call
    scope,           \* the temp_config block or with_debug context that is open, <<>> if none
    torn_down,       \* history: the sinks AsyncLogger.cleanup has called cleanup() of
    escaped,         \* history: the last logging call of the UnifiedLogger raised to its caller
    loggers,         \* UnifiedLogger.loggers: the registered names, in dict order
    stage,           \* where AsyncLogger.initialize is
    invoked,         \* history: the sinks whose log() the last _log_to_all called
    caught,          \* history: the sinks whose log() raised in the last _log_to_all
    records,         \* history: number of log() calls, the id of the last record
    sent,            \* history: ids that were in the payload of some POST
    delivered,       \* history: ids that were in the payload of a POST answered 204
    since_ok,        \* history: time since the last 204 delivery (or construction)
    not_found,       \* history: a validation request was answered 404
    closed,          \* history: cleanup() has returned, no initialize() since
    inits,           \* history: initialize() calls started
    cleanups         \* history: cleanup() calls started

vars == <<_running, message_queue, batch_age, _session, _batch_task, _lock,
          url_ok, pc, retries, payload, sleep_left, created, recreated, enabled_loggers,
          config, raised, requested, scope, torn_down, escaped, loggers, stage, invoked, caught,
          records, sent, delivered,
          since_ok, not_found, closed, inits, cleanups>>

\* ------------------------------------------------------------ helpers
Min(a, b) == IF a < b THEN a ELSE b
Max(a, b) == IF a > b THEN a ELSE b
Range(q) == {q[i] : i \in 1..Len(q)}
Take(q, n) == SubSeq(q, 1, Min(Len(q), n))          \* q[:n]
Drop(q, n) == SubSeq(q, n + 1, Len(q))              \* q[n:]
Without(q, S) == SelectSeq(q, LAMBDA x : x \notin S)
Increasing(q) == \A i, j \in 1..Len(q) : i < j => q[i] < q[j]

\* The state as one record, so that the methods are functions on it.
St == [running |-> _running, queue |-> message_queue, age |-> batch_age,
       session |-> _session, task |-> _batch_task, lock |-> _lock,
       pc |-> pc, retries |-> retries, payload |-> payload,
       sleep_left |-> sleep_left, created |-> created, recreated |-> recreated,
       sent |-> sent,
       loggers |-> loggers, stage |-> stage, invoked |-> invoked,
       caught |-> caught, torn_down |-> torn_down, escaped |-> escaped,
       scope |-> scope]

Becomes(s) ==
    /\ _running' = s.running
    /\ message_queue' = s.queue
    /\ batch_age' = s.age
    /\ _session' = s.session
    /\ _batch_task' = s.task
    /\ _lock' = s.lock
    /\ pc' = s.pc
    /\ retries' = s.retries
    /\ payload' = s.payload
    /\ sleep_left' = s.sleep_left
    /\ created' = s.created
    /\ recreated' = s.recreated
    /\ sent' = s.sent
    /\ loggers' = s.loggers
    /\ stage' = s.stage
    /\ invoked' = s.invoked
    /\ caught' = s.caught
    /\ torn_down' = s.torn_down
    /\ escaped' = s.escaped
    /\ scope' = s.scope

\* --------------------------------------------- LoggerType, LoggerConfig
DEBUG == 10
INFO == 20
WARNING == 30
ERROR == 40
CRITICAL == 50
valid_levels == {DEBUG, INFO, WARNING, ERROR, CRITICAL}

\* LoggerType.all_types(): the members, each written as its value
all_types == {"local", "asio", "discord"}
member_names == {"LOCAL", "ASIO", "DISCORD"}

\* LoggerType[name]
member(name) ==
    CASE name = "LOCAL" -> "local"
      [] name = "ASIO" -> "asio"
      [] name = "DISCORD" -> "discord"

\* the strings an enabled_loggers argument is made of
TokenInputs == {" Local ", "DISCORD", "bogus", ""}

\* t.strip().upper()
strip_upper(tok) ==
    CASE tok = " Local " -> "LOCAL"
      [] tok = "DISCORD" -> "DISCORD"
      [] tok = "bogus" -> "BOGUS"
      [] OTHER -> ""

\* the elements of an enabled_loggers argument: strings and LoggerType members
StringItems == {[is_str |-> TRUE, text |-> tok] : tok \in TokenInputs}
MemberItems == {[is_str |-> FALSE, text |-> m] : m \in all_types}

\* an enabled_loggers argument: None, a comma-separated string (its pieces), or
\* an iterable (its elements)
NoTypes == [kind |-> "None", items |-> {}]
MaxItems == 2
EnabledInputs ==
    {NoTypes}
        \cup {[kind |-> "str", items |-> S] :
                 S \in {X \in SUBSET StringItems : Cardinality(X) \in 1..MaxItems}}
        \cup {[kind |-> "iter", items |-> S] :
                 S \in {X \in SUBSET (StringItems \cup MemberItems) :
                           Cardinality(X) <= MaxItems}}

\* (mutant) an empty argument is taken as no argument
from_input_default(types) ==
    IF types.kind = "None" \/ types.items = {}
    THEN all_types
    ELSE {member(strip_upper(i.text)) :
             i \in {j \in types.items : j.is_str /\ strip_upper(j.text) \in member_names}}

\* LoggerType.from_input
from_input(types) ==
    IF types.kind = "None"
    THEN all_types
    ELSE {member(strip_upper(i.text)) :
             i \in {j \in types.items : j.is_str /\ strip_upper(j.text) \in member_names}}

\* None, for a field that holds a string
Absent == "None"
WebhookUrl == "https://discord.com/api/webhooks/1"
\* re.compile(pattern) succeeds
compiles(pattern) == pattern # "["

\* the values of the other constructor arguments
SettingsInputs ==
    [log_level : {INFO, 25},
     terminal_level : {DEBUG, WARNING, 25},
     enable_terminal_output : BOOLEAN,
     max_message_length : {0, 10000},
     discord_webhook_url : {Absent, WebhookUrl},
     log_dir : {Absent, "logs"},
     log_file_name : {"", "app.log"},
     filter_patterns : {<<"secret">>, <<"secret", "[">>}]

\* the configuration the sinks are run with
DefaultSettings ==
    [log_level |-> INFO, terminal_level |-> WARNING, enable_terminal_output |-> FALSE,
     max_message_length |-> 10000, discord_webhook_url |-> WebhookUrl,
     log_dir |-> "logs", log_file_name |-> "app.log", filter_patterns |-> <<"secret">>]

NoConfig == <<>>
Settings == <<DefaultSettings>>

\* (mutant) the terminal level is left as it was given
validate_config_keeps_level(enabled, c) ==
    IF enabled = {} \/ enabled \cap all_types = {}
    THEN [ok |-> FALSE, cfg |-> c]
    ELSE IF c.log_level \notin valid_levels \/ c.terminal_level \notin valid_levels
    THEN [ok |-> FALSE, cfg |-> c]
    ELSE IF \/ c.max_message_length <= 0
            \/ ("discord" \in enabled /\ c.discord_webhook_url \in {Absent, ""})
            \/ ("local" \in enabled /\ c.log_dir = Absent)
            \/ ("local" \in enabled /\ c.log_file_name = "")
            \/ \E i \in 1..Len(c.filter_patterns) : ~compiles(c.filter_patterns[i])
    THEN [ok |-> FALSE, cfg |-> c]
    ELSE [ok |-> TRUE, cfg |-> c]

\* LoggerConfig._validate_config: ok, or ValueError; cfg is what it leaves
validate_config(enabled, c) ==
    LET c1 == IF c.enable_terminal_output /\ c.terminal_level < c.log_level
              THEN [c EXCEPT !.terminal_level = c.log_level]
              ELSE c
    IN  IF enabled = {} \/ enabled \cap all_types = {}
        THEN [ok |-> FALSE, cfg |-> c]
        ELSE IF c.log_level \notin valid_levels \/ c.terminal_level \notin valid_levels
        THEN [ok |-> FALSE, cfg |-> c]
        ELSE IF \/ c1.max_message_length <= 0
                \/ ("discord" \in enabled /\ c1.discord_webhook_url \in {Absent, ""})
                \/ ("local" \in enabled /\ c1.log_dir = Absent)
                \/ ("local" \in enabled /\ c1.log_file_name = "")
                \/ \E i \in 1..Len(c1.filter_patterns) : ~compiles(c1.filter_patterns[i])
        THEN [ok |-> FALSE, cfg |-> c1]
        ELSE [ok |-> TRUE, cfg |-> c1]

\* LoggerConfig.__post_init__
post_init(types, c) ==
    IF from_input(types) = {}
    THEN [ok |-> FALSE, enabled |-> {}, cfg |-> c]
    ELSE [ok |-> validate_config(from_input(types), c).ok,
          enabled |-> from_input(types),
          cfg |-> validate_config(from_input(types), c).cfg]

\* the keyword arguments of an update call: attribute names and values
attributes ==
    {"enabled_loggers", "log_level", "terminal_level", "enable_terminal_output",
     "max_message_length", "discord_webhook_url", "log_dir", "log_file_name",
     "filter_patterns"}
UpdateInputs ==
    {<<"log_level", v>> : v \in {WARNING, 25}}
        \cup {<<"terminal_level", v>> : v \in {DEBUG}}
        \cup {<<"enable_terminal_output", v>> : v \in {TRUE}}
        \cup {<<"max_message_length", v>> : v \in {0}}
        \cup {<<"discord_webhook_url", v>> : v \in {Absent}}
        \cup {<<"enabled_loggers", v>> : v \in {{}, {"local"}}}
        \cup {<<"unknown_attribute", v>> : v \in {0}}
\* **kwargs: every name once, in the order of the call
KwargsInputs ==
    {kw \in UNION {[1..n -> UpdateInputs] : n \in 1..MaxUpdateKeys} :
        \A i, j \in 1..Len(kw) : i # j => kw[i][1] # kw[j][1]}

\* setattr(self, key, value)
set_attr(o, key, value) ==
    IF key = "enabled_loggers"
    THEN [o EXCEPT !.enabled = value]
    ELSE [o EXCEPT !.cfg = [@ EXCEPT ![key] = value]]

\* LoggerConfig.update, the loop: each name is tested, then set
RECURSIVE set_attrs(_, _)
set_attrs(o, kwargs) ==
    IF kwargs = <<>>
    THEN o
    ELSE IF Head(kwargs)[1] \notin attributes
    THEN [o EXCEPT !.ok = FALSE]
    ELSE set_attrs(set_attr(o, Head(kwargs)[1], Head(kwargs)[2]), Tail(kwargs))

\* LoggerConfig.update
update(enabled, c, kwargs) ==
    LET o == set_attrs([ok |-> TRUE, enabled |-> enabled, cfg |-> c], kwargs)
    IN  IF ~o.ok
        THEN o
        ELSE [ok |-> validate_config(o.enabled, o.cfg).ok,
              enabled |-> o.enabled,
              cfg |-> validate_config(o.enabled, o.cfg).cfg]

\* ------------------------------------------------- DiscordLogger methods
\* _ensure_session: a new ClientSession unless one is there
ensure_session(s) ==
    IF s.session = "None" THEN [s EXCEPT !.session = "open"] ELSE s

\* cleanup, the session part: close the session and forget it, return
release_session(s) ==
    [s EXCEPT !.session = "None", !.pc[Main] = "idle"]

\* cleanup, the task part: cancel the batch task unless it is done, and wait
\* for it (a cancelled task ends at the await it is suspended in and gives
\* the lock back if it holds it)
cancel_task(s) ==
    IF s.task # 0 /\ s.pc[s.task] # "done"
    THEN [s EXCEPT !.pc[s.task] = "done",
                   !.retries[s.task] = 0,
                   !.payload[s.task] = <<>>,
                   !.sleep_left[s.task] = 0,
                   !.recreated[s.task] = FALSE,
                   !.lock = IF @ = s.task THEN 0 ELSE @,
                   !.pc[Main] = "await_task"]
    ELSE release_session(s)

\* the return of the outermost _send_batch to its caller: cleanup goes on to
\* the batch task, _batch_processor leaves the lock and sleeps
return_batch(s, t, ok) ==
    LET s1 == [s EXCEPT !.retries[t] = 0, !.payload[t] = <<>>, !.sleep_left[t] = 0,
                        !.recreated[t] = FALSE]
    IN  IF t = Main
        THEN cancel_task(s1)
        ELSE [s1 EXCEPT !.lock = 0, !.pc[t] = "nap", !.sleep_left[t] = WorkerNap]

\* (mutant) the request carries the whole queue
send_batch_all(s, t, r) ==
    IF s.queue = <<>>
    THEN return_batch(s, t, TRUE)
    ELSE [ensure_session(s) EXCEPT
              !.pc[t] = "post",
              !.retries[t] = r,
              !.payload[t] = s.queue,
              !.sleep_left[t] = 0,
              !.recreated[t] = (s.session = "None"),
              !.sent = @ \cup Range(s.queue)]

\* _send_batch(retries) up to the request: nothing to do on an empty queue,
\* else POST the first ten queued records
send_batch(s, t, r) ==
    IF s.queue = <<>>
    THEN return_batch(s, t, TRUE)
    ELSE [ensure_session(s) EXCEPT
              !.pc[t] = "post",
              !.retries[t] = r,
              !.payload[t] = Take(s.queue, EmbedsPerPost),
              !.sleep_left[t] = 0,
              !.recreated[t] = (s.session = "None"),
              !.sent = @ \cup Range(Take(s.queue, EmbedsPerPost))]

\* (mutant) the retry_after of the response is ignored
rate_limit_delay_fixed(ra) == retry_delay

\* the sleep before the retry of a rate-limited request
rate_limit_delay(ra) == IF ra = <<>> THEN retry_delay ELSE ra[1]

\* (mutant) the sleep after a gateway error does not grow
gateway_delay_flat(r) == retry_delay

\* the sleep before the retry after a gateway error
gateway_delay(r) == retry_delay * (r + 1)

\* (mutant) the except clause retries once more than the budget allows
fail_or_retry_again(s, t) ==
    IF s.retries[t] <= max_retries
    THEN [s EXCEPT !.pc[t] = "recover", !.sleep_left[t] = retry_delay]
    ELSE return_batch(s, t, FALSE)

\* _send_batch, the except clause: sleep and retry on a new session while
\* the budget lasts, else give up
fail_or_retry(s, t) ==
    IF s.retries[t] < max_retries
    THEN [s EXCEPT !.pc[t] = "recover", !.sleep_left[t] = retry_delay]
    ELSE return_batch(s, t, FALSE)

\* _send_batch from the response on
on_response(s0, t, status, ra) ==
    LET s == [s0 EXCEPT !.recreated[t] = FALSE]
    IN  IF status = RateLimited
        THEN IF s.retries[t] < max_retries
             THEN [s EXCEPT !.pc[t] = "backoff", !.sleep_left[t] = rate_limit_delay(ra)]
             ELSE return_batch(s, t, FALSE)
        ELSE IF status \in GatewayErrors /\ s.retries[t] < max_retries
        THEN [s EXCEPT !.pc[t] = "backoff", !.sleep_left[t] = gateway_delay(s.retries[t])]
        ELSE IF status = OK204
        THEN return_batch([s EXCEPT !.queue = Drop(@, EmbedsPerPost), !.age = 0], t, TRUE)
        ELSE fail_or_retry(s, t)

\* (mutant) the retry after an exception keeps the session
resume_send_same_session(s, t) ==
    send_batch(s, t, s.retries[t] + 1)

\* _send_batch after its sleep: the recursive call, in the except clause
\* after closing and forgetting the session
resume_send(s, t) ==
    IF s.pc[t] = "recover"
    THEN send_batch([s EXCEPT !.session = "None"], t, s.retries[t] + 1)
    ELSE send_batch(s, t, s.retries[t] + 1)

\* (mutant) the batch size has to be exceeded
flush_due_above(s) ==
    \/ Len(s.queue) > batch_size
    \/ (s.queue # <<>> /\ s.age >= batch_interval)

\* (mutant) only a full batch is flushed
flush_due_full(s) ==
    Len(s.queue) >= batch_size

\* _batch_processor, the flush condition
flush_due(s) ==
    \/ Len(s.queue) >= batch_size
    \/ (s.queue # <<>> /\ s.age >= batch_interval)

\* _batch_processor, one turn of the loop from its test, or from the lock it
\* waited for
batch_processor(s, t) ==
    IF s.pc[t] = "lock"
    THEN send_batch([s EXCEPT !.lock = t], t, 0)
    ELSE IF ~s.running
    THEN [s EXCEPT !.pc[t] = "done", !.sleep_left[t] = 0]
    ELSE IF flush_due(s)
    THEN IF s.lock = 0
         THEN send_batch([s EXCEPT !.lock = t], t, 0)
         ELSE [s EXCEPT !.pc[t] = "lock", !.sleep_left[t] = 0]
    ELSE [s EXCEPT !.pc[t] = "nap", !.sleep_left[t] = WorkerNap]

\* initialize up to the validation request of _check_webhook
initialize(s, wellformed) ==
    IF ~wellformed
    THEN [s EXCEPT !.running = FALSE]
    ELSE [ensure_session(s) EXCEPT !.pc[Main] = "check"]

\* initialize from the validation response on
check_webhook(s, status) ==
    IF status = OK204
    THEN [s EXCEPT !.created = @ + 1,
                   !.task = s.created + 1,
                   !.pc[s.created + 1] = "ready",
                   !.pc[Main] = "idle"]
    ELSE [s EXCEPT !.running = FALSE, !.pc[Main] = "idle"]

\* (mutant) log() does not append while a flush holds the lock
sync_log_unless_locked(s, rec) ==
    IF ~s.running \/ s.lock # 0 THEN s ELSE [s EXCEPT !.queue = Append(@, rec)]

\* (mutant) the record goes to the head of the queue
sync_log_head(s, rec) ==
    IF ~s.running THEN s ELSE [s EXCEPT !.queue = <<rec>> \o @]

\* _sync_log
sync_log(s, rec) ==
    IF ~s.running THEN s ELSE [s EXCEPT !.queue = Append(@, rec)]

\* (mutant) cleanup goes to the batch task without a final flush
cleanup_without_flush(s) ==
    cancel_task([s EXCEPT !.running = FALSE])

\* cleanup up to its first suspension
cleanup(s) ==
    LET s1 == [s EXCEPT !.running = FALSE]
    IN  IF s1.queue # <<>> THEN send_batch(s1, Main, 0) ELSE cancel_task(s1)

\* --------------------------------- UnifiedLogger and AsyncLogger methods
SinkNames == {"local", "asio", "discord"}
\* message texts, as the words they are made of
Messages == {<<"hello">>, <<"secret">>}
ErrorTexts == {<<"boom">>}
filter_patterns == {"secret"}

\* MessageFormatter.process_message: no message if a filter pattern matches
\* somewhere in the text
process_message(msg) ==
    IF \E i \in 1..Len(msg) : msg[i] \in filter_patterns THEN <<>> ELSE <<msg>>

\* self.loggers[name] = sink: a new key goes last, a known key keeps its place
register(reg, name) ==
    IF name \in Range(reg) THEN reg ELSE Append(reg, name)

\* (mutant) the first sink whose log() raises ends the loop
RECURSIVE fan_out_until_raise(_, _, _, _)
fan_out_until_raise(s, names, rec, failing) ==
    IF names = <<>>
    THEN s
    ELSE LET n == Head(names)
             s1 == [s EXCEPT !.invoked = Append(@, n)]
         IN  IF n \in failing
             THEN [s1 EXCEPT !.caught = @ \cup {n}]
             ELSE fan_out_until_raise(IF n = "discord" THEN sync_log(s1, rec) ELSE s1,
                                      Tail(names), rec, failing)

\* UnifiedLogger._log_to_all, the loop over the registry: log() of each sink
\* in turn, what one raises is caught and printed
RECURSIVE fan_out(_, _, _, _)
fan_out(s, names, rec, failing) ==
    IF names = <<>>
    THEN s
    ELSE LET n == Head(names)
             s1 == [s EXCEPT !.invoked = Append(@, n)]
             s2 == IF n \in failing
                   THEN [s1 EXCEPT !.caught = @ \cup {n}]
                   ELSE IF n = "discord" THEN sync_log(s1, rec) ELSE s1
         IN  fan_out(s2, Tail(names), rec, failing)

\* (mutant) the fan-out without the filter
log_to_all_unfiltered(s, msg, rec, failing) ==
    fan_out([s EXCEPT !.invoked = <<>>, !.caught = {}, !.escaped = FALSE],
            s.loggers, rec, failing)

\* UnifiedLogger._log_to_all
log_to_all(s, msg, rec, failing) ==
    LET s1 == [s EXCEPT !.invoked = <<>>, !.caught = {}, !.escaped = FALSE]
    IN  IF process_message(msg) = <<>> THEN s1 ELSE fan_out(s1, s.loggers, rec, failing)

\* UnifiedLogger.exception, the text: the message, then str(e)
error_msg(msg, err) == IF msg = <<>> THEN err ELSE msg \o err

\* UnifiedLogger.exception(e, message): _log_to_all with the exception attached
exception(s, msg, err, rec, failing) ==
    log_to_all(s, error_msg(msg, err), rec, failing)

\* UnifiedLogger.result_data(data): the fan-out of the formatted data, then
\* the result channel of a new AsioLogger if asio is enabled
result_data(s, enabled, data, rec, failing, asio_raises) ==
    LET s1 == log_to_all(s, <<"Result", "Data">> \o data, rec, failing)
    IN  IF "asio" \in enabled /\ asio_raises THEN [s1 EXCEPT !.escaped = TRUE] ELSE s1

\* UnifiedLogger.result_failed_message(message)
result_failed_message(s, enabled, asio_raises) ==
    [s EXCEPT !.invoked = <<>>, !.caught = {},
              !.escaped = ("asio" \in enabled /\ asio_raises)]

\* UnifiedLogger._initialize, the sinks built before the Discord one: the
\* constructors run in order (local, asio), the first one that raises ends
\* _initialize
first_sinks(enabled, broken) ==
    LET local == IF "local" \in enabled THEN <<"local">> ELSE <<>>
        asio == IF "asio" \in enabled THEN <<"asio">> ELSE <<>>
    IN  IF "local" \in enabled \cap broken THEN <<>>
        ELSE IF "asio" \in enabled \cap broken THEN local
        ELSE local \o asio

\* UnifiedLogger._initialize got to the Discord sink
reaches_discord(enabled, broken) ==
    /\ "discord" \in enabled
    /\ enabled \cap broken \cap {"local", "asio"} = {}

\* AsyncLogger.initialize after _initialize: the handlers, then
\* _initialize_specialized_loggers, which awaits initialize() of a registered
\* Discord sink once more
specialized(s, handlers_ok, wellformed) ==
    IF ~handlers_ok
    THEN [s EXCEPT !.stage = "failed"]
    ELSE IF "discord" \in Range(s.loggers)
    THEN LET s1 == initialize(s, wellformed)
         IN  [s1 EXCEPT !.stage = IF s1.pc[Main] = "check" THEN "init2" ELSE "ready"]
    ELSE [s EXCEPT !.stage = "ready"]

\* UnifiedLogger._initialize from the return of the Discord sink's
\* initialize(): the sink is registered
registered(s, handlers_ok, wellformed) ==
    specialized([s EXCEPT !.loggers = register(@, "discord")], handlers_ok, wellformed)

\* AsyncLogger.initialize up to its first suspension
app_initialize(s, enabled, broken, handlers_ok, wellformed) ==
    LET s1 == [s EXCEPT !.loggers = first_sinks(enabled, broken)]
    IN  IF reaches_discord(enabled, broken)
        THEN LET s2 == initialize(s1, wellformed)
             IN  IF s2.pc[Main] = "check"
                 THEN [s2 EXCEPT !.stage = "init1"]
                 ELSE registered(s2, handlers_ok, wellformed)
        ELSE specialized(s1, handlers_ok, wellformed)

\* AsyncLogger.initialize from a validation response on
app_validated(s, status, handlers_ok, wellformed) ==
    LET s1 == check_webhook(s, status)
    IN  IF s.stage = "init1"
        THEN registered(s1, handlers_ok, wellformed)
        ELSE [s1 EXCEPT !.stage = "ready"]

\* AsyncLogger.cleanup after cleanup() of the Discord sink has returned
after_discord(s) ==
    [s EXCEPT !.stage = "closing_nap", !.sleep_left[Main] = CleanupNap]

\* AsyncLogger.cleanup, the loop over the registry from the first sink that
\* is not in torn_down: cleanup() of local and asio is called inline (what it
\* raises is caught), cleanup() of the Discord sink is awaited; after the
\* loop the handlers of the root logger are closed
RECURSIVE tear_down(_)
tear_down(s) ==
    IF Len(s.torn_down) >= Len(s.loggers)
    THEN [s EXCEPT !.stage = "closed"]
    ELSE LET n == s.loggers[Len(s.torn_down) + 1]
             s1 == [s EXCEPT !.torn_down = Append(@, n)]
         IN  IF n # "discord"
             THEN tear_down(s1)
             ELSE IF cleanup(s1).pc[Main] = "idle"
             THEN after_discord(cleanup(s1))
             ELSE [cleanup(s1) EXCEPT !.stage = "closing"]

\* UnifiedLogger.cleanup(): cleanup() of every registered sink is called, not
\* awaited. cleanup of the Discord sink is a coroutine function, the call
\* only makes a coroutine object and nothing of its body runs: the sink
\* stays as it is
unified_cleanup(s) ==
    [s EXCEPT !.torn_down = s.loggers, !.stage = "exited"]

\* ------------------------------------------------------------- the sink
NewSink ==
    /\ _running = TRUE
    /\ message_queue = <<>>
    /\ batch_age = 0
    /\ _session = "None"
    /\ _batch_task = 0
    /\ _lock = 0
    /\ url_ok \in BOOLEAN
    /\ pc = [t \in Tasks |-> IF t = Main THEN "idle" ELSE "none"]
    /\ retries = [t \in Tasks |-> 0]
    /\ payload = [t \in Tasks |-> <<>>]
    /\ sleep_left = [t \in Tasks |-> 0]
    /\ created = 0
    /\ recreated = [t \in Tasks |-> FALSE]
    /\ records = 0
    /\ sent = {}
    /\ delivered = {}
    /\ since_ok = 0
    /\ not_found = FALSE
    /\ closed = FALSE
    /\ inits = 0
    /\ cleanups = 0
    /\ loggers = <<>>
    /\ stage = "new"
    /\ invoked = <<>>
    /\ caught = {}
    /\ torn_down = <<>>
    /\ scope = <<>>
    /\ escaped = FALSE
    /\ raised = FALSE
    /\ requested = NoTypes

\* a DiscordLogger used on its own
Init ==
    /\ NewSink
    /\ enabled_loggers = {"discord"}
    /\ config = Settings

\* the cleanup() that led to s has returned to its caller
Returned(s) == s.pc[Main] = "idle"

\* DiscordLogger.log(level, message)
Log(limit) ==
    /\ records < limit
    /\ Becomes(sync_log(St, records + 1))
    /\ records' = records + 1
    /\ UNCHANGED <<delivered, url_ok, enabled_loggers, config, raised, requested, since_ok, not_found, closed, inits, cleanups>>

\* await DiscordLogger.initialize(), to the validation request
Initialize(limit) ==
    /\ pc[Main] = "idle"
    /\ inits < limit
    /\ created < MaxWorkers
    /\ Becomes(initialize(St, url_ok))
    /\ inits' = inits + 1
    /\ closed' = FALSE
    /\ UNCHANGED <<delivered, url_ok, enabled_loggers, config, raised, requested, records, since_ok, not_found, cleanups>>

\* the endpoint answers the validation request
Validated(status) ==
    /\ pc[Main] = "check"
    /\ Becomes(check_webhook(St, status))
    /\ not_found' = (not_found \/ status = NotFound)
    /\ UNCHANGED <<delivered, url_ok, enabled_loggers, config, raised, requested, records, since_ok, closed, inits, cleanups>>

\* await DiscordLogger.cleanup(), to its first suspension
Cleanup(limit) ==
    /\ pc[Main] = "idle"
    /\ cleanups < limit
    /\ Becomes(cleanup(St))
    /\ cleanups' = cleanups + 1
    /\ closed' = Returned(cleanup(St))
    /\ UNCHANGED <<delivered, url_ok, enabled_loggers, config, raised, requested, records, since_ok, not_found, inits>>

\* cleanup goes on once the cancelled batch task has ended
CleanupResume ==
    /\ pc[Main] = "await_task"
    /\ Becomes(release_session(St))
    /\ closed' = TRUE
    /\ UNCHANGED <<delivered, url_ok, enabled_loggers, config, raised, requested, records, since_ok, not_found, inits, cleanups>>

\* a batch task can run: it was just created, its sleep(1) is over, or the
\* lock it waits for is free
Runnable(t) ==
    \/ pc[t] = "ready"
    \/ (pc[t] = "nap" /\ sleep_left[t] = 0)
    \/ (pc[t] = "lock" /\ _lock = 0)

\* a batch task runs to its next suspension
WorkerRun(t) ==
    /\ Runnable(t)
    /\ Becomes(batch_processor(St, t))
    /\ UNCHANGED <<delivered, url_ok, enabled_loggers, config, raised, requested, records, since_ok, not_found, closed, inits, cleanups>>

\* the endpoint answers a delivery request (or the request fails)
Respond(t, status, ra) ==
    /\ pc[t] = "post"
    /\ Becomes(on_response(St, t, status, ra))
    /\ since_ok' = IF status = OK204 THEN 0 ELSE since_ok
    /\ closed' = IF t = Main THEN Returned(on_response(St, t, status, ra)) ELSE closed
    /\ delivered' = IF status = OK204 THEN delivered \cup Range(payload[t]) ELSE delivered
    /\ UNCHANGED <<url_ok, enabled_loggers, config, raised, requested, records, not_found, inits, cleanups>>

\* the sleep of a _send_batch is over
Resume(t) ==
    /\ pc[t] \in {"backoff", "recover"}
    /\ sleep_left[t] = 0
    /\ Becomes(resume_send(St, t))
    /\ closed' = IF t = Main THEN Returned(resume_send(St, t)) ELSE closed
    /\ UNCHANGED <<delivered, url_ok, enabled_loggers, config, raised, requested, records, since_ok, not_found, inits, cleanups>>

\* one unit of time passes
Tick ==
    /\ batch_age' = Min(batch_age + 1, batch_interval)
    /\ since_ok' = Min(since_ok + 1, batch_interval)
    /\ sleep_left' = [t \in Tasks |-> Max(sleep_left[t] - 1, 0)]
    /\ UNCHANGED <<_running, message_queue, _session, _batch_task, _lock, url_ok,
                   pc, retries, payload, created, recreated, records, sent, delivered, not_found,
                   closed, inits, cleanups, enabled_loggers, loggers, stage,
                   invoked, caught, config, raised, requested, torn_down, escaped, scope>>

\* the answers the endpoint can give to a delivery request
Answer(statuses) ==
    \E t \in Tasks, status \in statuses, ra \in RetryAfterValues :
        /\ (status # RateLimited => ra = <<>>)
        /\ Respond(t, status, ra)

\* what the sink's tasks and the endpoint do on their own
Background(statuses) ==
    \/ \E status \in ValidationStatuses : Validated(status)
    \/ CleanupResume
    \/ \E t \in Workers : WorkerRun(t)
    \/ Answer(statuses)
    \/ \E t \in Tasks : Resume(t)
    \/ Tick

\* The sink driven through its public methods, initialize() called once.
Next ==
    \/ Log(MaxRecords)
    \/ Initialize(MaxInit)
    \/ Cleanup(MaxCleanup)
    \/ Background(DeliveryStatuses)

Spec == Init /\ [][Next]_vars

\* The sink with initialize() called twice, as AsyncLogger.initialize does
\* (UnifiedLogger._initialize, then _initialize_specialized_loggers).
NextReinit ==
    \/ Log(MaxReinitRecords)
    \/ Initialize(InitCalls)
    \/ Cleanup(MaxCleanup)
    \/ Background(DeliveryStatuses)

SpecReinit == Init /\ [][NextReinit]_vars

\* The sink with a queue longer than one request carries, flushed by its
\* batch task against an endpoint that answers 204.
NextBatch ==
    \/ Log(MaxBatchRecords)
    \/ Initialize(MaxInit)
    \/ \E status \in ValidationStatuses : Validated(status)
    \/ \E t \in Workers : WorkerRun(t)
    \/ Answer({OK204})
    \/ Tick

SpecBatch == Init /\ [][NextBatch]_vars

\* The sink with a queue longer than one request carries, closed by
\* cleanup() against an endpoint that answers every request with 204.
NextDrain ==
    \/ Log(MaxBatchRecords)
    \/ Initialize(MaxInit)
    \/ Validated(OK204)
    \/ Cleanup(MaxCleanup)
    \/ CleanupResume
    \/ \E t \in Workers : WorkerRun(t)
    \/ Answer({OK204})
    \/ Tick

SpecDrain == Init /\ [][NextDrain]_vars

\* The sink that stays running, with fewer records than a full batch. The
\* event loop runs every task that can run, time passes, and the endpoint
\* answers every request, the validation request too, with 204.
NextLive ==
    \/ Log(MaxLiveRecords)
    \/ Initialize(MaxInit)
    \/ Validated(OK204)
    \/ \E t \in Workers : WorkerRun(t)
    \/ Answer({OK204})
    \/ Tick

SpecLive ==
    /\ Init
    /\ [][NextLive]_vars
    /\ \A t \in Workers : WF_vars(WorkerRun(t))
    /\ WF_vars(Answer({OK204}))
    /\ WF_vars(Tick)

\* ------------------------------------------------------------ the system
\* a configuration that passed LoggerConfig validation
InitApp ==
    /\ NewSink
    /\ enabled_loggers \in SUBSET SinkNames \ {{}}
    /\ config = Settings

\* await AsyncLogger.initialize(), to its first suspension
AppInitialize(broken, handlers_ok) ==
    /\ stage = "new"
    /\ Becomes(app_initialize(St, enabled_loggers, broken, handlers_ok, url_ok))
    /\ inits' = IF reaches_discord(enabled_loggers, broken)
                THEN (IF url_ok \/ ~handlers_ok THEN 1 ELSE 2)
                ELSE 0
    /\ UNCHANGED <<delivered, url_ok, enabled_loggers, config, raised, requested, records, since_ok, not_found, closed, cleanups>>

\* the endpoint answers a validation request of AsyncLogger.initialize
AppValidated(status, handlers_ok) ==
    /\ stage \in {"init1", "init2"}
    /\ pc[Main] = "check"
    /\ Becomes(app_validated(St, status, handlers_ok, url_ok))
    /\ not_found' = (not_found \/ status = NotFound)
    /\ inits' = IF stage = "init1" /\ handlers_ok THEN inits + 1 ELSE inits
    /\ UNCHANGED <<delivered, url_ok, enabled_loggers, config, raised, requested, records, since_ok, closed, cleanups>>

\* a logging method of the UnifiedLogger that AsyncLogger.initialize returned
LogToAll(limit, msg, failing) ==
    /\ stage = "ready"
    /\ records < limit
    /\ Becomes(log_to_all(St, msg, records + 1, failing))
    /\ records' = records + 1
    /\ UNCHANGED <<delivered, url_ok, enabled_loggers, config, raised, requested, since_ok, not_found, closed, inits, cleanups>>

\* logger.exception(e, message) on that UnifiedLogger
LogException(limit, msg, err, failing) ==
    /\ stage = "ready"
    /\ records < limit
    /\ Becomes(exception(St, msg, err, records + 1, failing))
    /\ records' = records + 1
    /\ UNCHANGED <<delivered, url_ok, enabled_loggers, config, raised, requested, since_ok, not_found, closed, inits, cleanups>>

\* logger.result_data(data) on that UnifiedLogger
ResultData(limit, data, failing, asio_raises) ==
    /\ stage = "ready"
    /\ records < limit
    /\ Becomes(result_data(St, enabled_loggers, data, records + 1, failing, asio_raises))
    /\ records' = records + 1
    /\ UNCHANGED <<delivered, url_ok, enabled_loggers, config, raised, requested, since_ok, not_found, closed, inits, cleanups>>

\* logger.result_failed_message(message) on that UnifiedLogger
ResultFailedMessage(asio_raises) ==
    /\ stage = "ready"
    /\ Becomes(result_failed_message(St, enabled_loggers, asio_raises))
    /\ UNCHANGED <<delivered, url_ok, enabled_loggers, config, raised, requested, records, since_ok, not_found, closed, inits, cleanups>>

\* the logging calls on the UnifiedLogger
Logging(limit) ==
    \/ \E msg \in Messages, failing \in SUBSET {"local", "asio"} :
          LogToAll(limit, msg, failing)
    \/ \E msg \in Messages \cup {<<>>}, err \in ErrorTexts, failing \in SUBSET {"local", "asio"} :
          LogException(limit, msg, err, failing)
    \/ \E data \in Messages, failing \in SUBSET {"local", "asio"}, asio_raises \in BOOLEAN :
          ResultData(limit, data, failing, asio_raises)
    \/ \E asio_raises \in BOOLEAN : ResultFailedMessage(asio_raises)

NextApp ==
    \/ \E broken \in {{}, {"local"}, {"asio"}}, handlers_ok \in BOOLEAN :
          AppInitialize(broken, handlers_ok)
    \/ \E status \in ValidationStatuses, handlers_ok \in BOOLEAN :
          AppValidated(status, handlers_ok)
    \/ Logging(MaxAppRecords)
    \/ \E t \in Workers : WorkerRun(t)
    \/ Answer(DeliveryStatuses)
    \/ \E t \in Tasks : Resume(t)
    \/ Tick

SpecApp == InitApp /\ [][NextApp]_vars

\* logger.cleanup() on the UnifiedLogger, or the end of a `with logger:` block
UnifiedCleanup ==
    /\ stage = "ready"
    /\ pc[Main] = "idle"
    /\ Becomes(unified_cleanup(St))
    /\ UNCHANGED <<delivered, url_ok, enabled_loggers, config, raised, requested, records, since_ok, not_found, closed, inits, cleanups>>

\* The system from AsyncLogger.initialize to the cleanup of the UnifiedLogger.
NextExit ==
    \/ NextApp
    \/ UnifiedCleanup

SpecExit == InitApp /\ [][NextExit]_vars

\* ------------------------------------------------------ the configuration
\* the sink does nothing
SinkIdle ==
    /\ Becomes(St)
    /\ UNCHANGED <<delivered, url_ok, records, since_ok, not_found, closed, inits, cleanups>>

InitConfig ==
    /\ NewSink
    /\ url_ok
    /\ enabled_loggers = {}
    /\ config = NoConfig

\* LoggerConfig(enabled_loggers=types, ...)
Construct(types, c) ==
    /\ config = NoConfig
    /\ ~raised
    /\ requested' = types
    /\ \E o \in {post_init(types, c)} :
          /\ raised' = ~o.ok
          /\ config' = IF o.ok THEN <<o.cfg>> ELSE NoConfig
          /\ enabled_loggers' = IF o.ok THEN o.enabled ELSE enabled_loggers
    /\ SinkIdle

\* config.update(**kwargs)
Update(kwargs) ==
    /\ config # NoConfig
    /\ requested' = NoTypes
    /\ \E o \in {update(enabled_loggers, config[1], kwargs)} :
          /\ raised' = ~o.ok
          /\ config' = <<o.cfg>>
          /\ enabled_loggers' = o.enabled
    /\ SinkIdle

NextConfig ==
    \/ \E types \in EnabledInputs, c \in SettingsInputs : Construct(types, c)
    \/ \E kwargs \in KwargsInputs : Update(kwargs)

SpecConfig == InitConfig /\ [][NextConfig]_vars

\* ------------------------------------ the configuration of a UnifiedLogger
\* getattr(self.config, key)
get_attr(o, key) == IF key = "enabled_loggers" THEN o.enabled ELSE o.cfg[key]

\* temp_config, the loop that saves the attributes to be changed: getattr of
\* a name the configuration does not have raises and ends the loop
RECURSIVE originals(_, _)
originals(o, kwargs) ==
    IF kwargs = <<>>
    THEN [ok |-> TRUE, kw |-> <<>>]
    ELSE IF Head(kwargs)[1] \notin attributes
    THEN [ok |-> FALSE, kw |-> <<>>]
    ELSE [ok |-> originals(o, Tail(kwargs)).ok,
          kw |-> <<<<Head(kwargs)[1], get_attr(o, Head(kwargs)[1])>>>>
                    \o originals(o, Tail(kwargs)).kw]

\* UnifiedLogger.temp_config up to its yield: the block is entered if the
\* update did not raise, else the finally clause runs at once and the
\* exception goes to the caller
temp_config(enabled, c, kwargs) ==
    LET o == [ok |-> TRUE, enabled |-> enabled, cfg |-> c]
        orig == originals(o, kwargs)
        u == IF orig.ok THEN update(enabled, c, kwargs) ELSE o
    IN  IF orig.ok /\ u.ok
        THEN [entered |-> TRUE, original |-> orig.kw, enabled |-> u.enabled, cfg |-> u.cfg]
        ELSE [entered |-> FALSE, original |-> <<>>,
              enabled |-> update(u.enabled, u.cfg, orig.kw).enabled,
              cfg |-> update(u.enabled, u.cfg, orig.kw).cfg]

\* UnifiedLogger.update_config, the loop: setattr of every name the
\* configuration has, the other names are passed over
RECURSIVE set_known(_, _)
set_known(o, kwargs) ==
    IF kwargs = <<>>
    THEN o
    ELSE set_known(IF Head(kwargs)[1] \in attributes
                   THEN set_attr(o, Head(kwargs)[1], Head(kwargs)[2])
                   ELSE o,
                   Tail(kwargs))

\* setup_loggers, the set it assigns to config.enabled_loggers: a set of
\* LoggerType members as it is, anything else through from_input
setup_types(types) ==
    IF types.kind = "iter" /\ \A i \in types.items : ~i.is_str
    THEN {i.text : i \in types.items}
    ELSE from_input(types)

\* DiscordLogger.__init__: the fields of the new object that _initialize
\* puts in the place of the one it had; the tasks of that one live on
new_discord(s) ==
    [s EXCEPT !.running = TRUE, !.queue = <<>>, !.age = 0, !.session = "None",
              !.task = 0, !.lock = 0]

\* self.loggers[name] = sink for each of names in turn
RECURSIVE register_all(_, _)
register_all(reg, names) ==
    IF names = <<>> THEN reg ELSE register_all(register(reg, Head(names)), Tail(names))

\* the configured webhook URL has the prefix _check_webhook asks for
wellformed_url(c) == c.discord_webhook_url = WebhookUrl

\* UnifiedLogger._initialize up to its first suspension
unified_initialize(s, enabled, c, broken) ==
    LET s1 == [s EXCEPT !.loggers = register_all(@, first_sinks(enabled, broken))]
    IN  IF reaches_discord(enabled, broken)
        THEN LET s2 == initialize(new_discord(s1), wellformed_url(c))
             IN  IF s2.pc[Main] = "check"
                 THEN [s2 EXCEPT !.stage = "setup"]
                 ELSE [s2 EXCEPT !.loggers = register(@, "discord"), !.stage = "ready"]
        ELSE [s1 EXCEPT !.stage = "ready"]

\* UnifiedLogger._initialize from the validation response on
unified_validated(s, status) ==
    [check_webhook(s, status) EXCEPT !.loggers = register(@, "discord"), !.stage = "ready"]

\* the keyword arguments of the calls on a UnifiedLogger: one attribute
OneKeyInputs == {kw \in KwargsInputs : Len(kw) = 1}
\* those of a temp_config call, the one of the with_debug decorator among them
ScopeInputs == OneKeyInputs \cup {<<<<"log_level", DEBUG>>>>}

\* the enabled_loggers arguments the configuration is constructed with
ScopeTypes == {NoTypes, [kind |-> "str", items |-> {[is_str |-> TRUE, text |-> " Local "]}]}

\* a configuration as its constructor leaves it
InitScope ==
    /\ NewSink
    /\ url_ok
    /\ \E types \in ScopeTypes, c \in SettingsInputs :
          /\ post_init(types, c).ok
          /\ enabled_loggers = post_init(types, c).enabled
          /\ config = <<post_init(types, c).cfg>>

\* await setup_loggers(types, config), to its first suspension
SetupLoggers(types, broken) ==
    /\ config # NoConfig
    /\ stage = "new"
    /\ scope = <<>>
    /\ enabled_loggers' = setup_types(types)
    /\ Becomes(unified_initialize(St, setup_types(types), config[1], broken))
    /\ inits' = IF reaches_discord(setup_types(types), broken) THEN inits + 1 ELSE inits
    /\ raised' = FALSE
    /\ requested' = NoTypes
    /\ UNCHANGED <<delivered, url_ok, config, records, since_ok, not_found, closed, cleanups>>

\* the endpoint answers the validation request of _initialize
SetupValidated(status) ==
    /\ stage = "setup"
    /\ pc[Main] = "check"
    /\ Becomes(unified_validated(St, status))
    /\ not_found' = (not_found \/ status = NotFound)
    /\ UNCHANGED <<delivered, url_ok, enabled_loggers, config, raised, requested, records, since_ok, closed, inits, cleanups>>

\* await logger.update_config(**kwargs), to its first suspension
UpdateConfig(kwargs, broken) ==
    /\ stage = "ready"
    /\ scope = <<>>
    /\ created < MaxWorkers
    /\ inits < MaxScopeInit
    /\ \E o \in {set_known([ok |-> TRUE, enabled |-> enabled_loggers, cfg |-> config[1]],
                           kwargs)} :
          /\ enabled_loggers' = o.enabled
          /\ config' = <<o.cfg>>
          /\ Becomes(unified_initialize(St, o.enabled, o.cfg, broken))
          /\ inits' = IF reaches_discord(o.enabled, broken) THEN inits + 1 ELSE inits
    /\ raised' = FALSE
    /\ requested' = NoTypes
    /\ UNCHANGED <<delivered, url_ok, records, since_ok, not_found, closed, cleanups>>

\* with logger.temp_config(**kwargs): up to the block
TempConfig(kwargs) ==
    /\ stage = "ready"
    /\ scope = <<>>
    /\ \E r \in {temp_config(enabled_loggers, config[1], kwargs)} :
          /\ raised' = ~r.entered
          /\ enabled_loggers' = r.enabled
          /\ config' = <<r.cfg>>
          /\ Becomes([St EXCEPT !.scope =
                         IF r.entered
                         THEN <<[kind |-> "temp", original |-> r.original,
                                 enabled |-> enabled_loggers, cfg |-> config[1]]>>
                         ELSE <<>>])
    /\ requested' = NoTypes
    /\ UNCHANGED <<delivered, url_ok, records, since_ok, not_found, closed, inits, cleanups>>

\* the block of a temp_config ends, by its last statement or by an
\* exception: the finally clause
TempConfigExit ==
    /\ scope # <<>>
    /\ scope[1].kind = "temp"
    /\ \E u \in {update(enabled_loggers, config[1], scope[1].original)} :
          /\ raised' = ~u.ok
          /\ enabled_loggers' = u.enabled
          /\ config' = <<u.cfg>>
    /\ Becomes([St EXCEPT !.scope = <<>>])
    /\ requested' = NoTypes
    /\ UNCHANGED <<delivered, url_ok, records, since_ok, not_found, closed, inits, cleanups>>

\* with logger.with_debug(): _DebugContext.__enter__
DebugEnter ==
    /\ stage = "ready"
    /\ scope = <<>>
    /\ \E u \in {update(enabled_loggers, config[1], <<<<"log_level", DEBUG>>>>)} :
          /\ raised' = ~u.ok
          /\ enabled_loggers' = u.enabled
          /\ config' = <<u.cfg>>
          /\ Becomes([St EXCEPT !.scope =
                         IF u.ok
                         THEN <<[kind |-> "debug", original |-> <<>>,
                                 enabled |-> enabled_loggers, cfg |-> config[1]]>>
                         ELSE <<>>])
    /\ requested' = NoTypes
    /\ UNCHANGED <<delivered, url_ok, records, since_ok, not_found, closed, inits, cleanups>>

\* the block of a with_debug context ends, by its last statement or by an
\* exception: _DebugContext.__exit__
DebugExit ==
    /\ scope # <<>>
    /\ scope[1].kind = "debug"
    /\ \E u \in {update(enabled_loggers, config[1], <<<<"log_level", INFO>>>>)} :
          /\ raised' = ~u.ok
          /\ enabled_loggers' = u.enabled
          /\ config' = <<u.cfg>>
    /\ Becomes([St EXCEPT !.scope = <<>>])
    /\ requested' = NoTypes
    /\ UNCHANGED <<delivered, url_ok, records, since_ok, not_found, closed, inits, cleanups>>

\* A configuration in the hands of setup_loggers and of the UnifiedLogger
\* it returns.
NextScope ==
    \/ \E kwargs \in OneKeyInputs : scope = <<>> /\ Update(kwargs)
    \/ \E types \in EnabledInputs, broken \in {{}, {"local"}} : SetupLoggers(types, broken)
    \/ \E status \in ValidationStatuses : SetupValidated(status)
    \/ \E kwargs \in OneKeyInputs, broken \in {{}, {"local"}} : UpdateConfig(kwargs, broken)
    \/ \E kwargs \in ScopeInputs : TempConfig(kwargs)
    \/ TempConfigExit
    \/ DebugEnter
    \/ DebugExit

SpecScope == InitScope /\ [][NextScope]_vars

\* await AsyncLogger.cleanup(), to its first suspension
AppCleanup ==
    /\ stage \in {"ready", "failed"}
    /\ pc[Main] = "idle"
    /\ Becomes(tear_down(St))
    /\ cleanups' = IF "discord" \in Range(loggers) THEN cleanups + 1 ELSE cleanups
    /\ closed' = (closed \/ tear_down(St).stage = "closing_nap")
    /\ UNCHANGED <<delivered, url_ok, enabled_loggers, config, raised, requested, records, since_ok, not_found, inits>>

\* cleanup() of the Discord sink has returned to AsyncLogger.cleanup
AppCleanupResume ==
    /\ stage = "closing"
    /\ pc[Main] = "idle"
    /\ Becomes(after_discord(St))
    /\ UNCHANGED <<delivered, url_ok, enabled_loggers, config, raised, requested, records, since_ok, not_found, closed, inits, cleanups>>

\* the sleep of AsyncLogger.cleanup is over
AppClosed ==
    /\ stage = "closing_nap"
    /\ sleep_left[Main] = 0
    /\ Becomes(tear_down(St))
    /\ UNCHANGED <<delivered, url_ok, enabled_loggers, config, raised, requested, records, since_ok, not_found, closed, inits, cleanups>>

\* The system from AsyncLogger.initialize to AsyncLogger.cleanup.
NextTeardown ==
    \/ \E broken \in {{}, {"local"}, {"asio"}}, handlers_ok \in BOOLEAN :
          AppInitialize(broken, handlers_ok)
    \/ \E status \in ValidationStatuses, handlers_ok \in BOOLEAN :
          AppValidated(status, handlers_ok)
    \/ \E msg \in Messages, failing \in SUBSET {"local", "asio"} :
          LogToAll(MaxAppRecords, msg, failing)
    \/ AppCleanup
    \/ AppCleanupResume
    \/ AppClosed
    \/ CleanupResume
    \/ \E t \in Workers : WorkerRun(t)
    \/ Answer(DeliveryStatuses)
    \/ \E t \in Tasks : Resume(t)
    \/ Tick

SpecTeardown == InitApp /\ [][NextTeardown]_vars

TypeOK ==
    /\ _running \in BOOLEAN
    /\ Increasing(message_queue)
    /\ _session \in {"None", "open"}
    /\ _batch_task \in 0..MaxWorkers
    /\ _lock \in 0..MaxWorkers
    /\ batch_age \in 0..batch_interval
    /\ \A t \in Tasks : retries[t] \in 0..max_retries
    /\ \A t \in Tasks : Len(payload[t]) <= EmbedsPerPost
    /\ \A t \in Tasks : recreated[t] \in BOOLEAN
    /\ delivered \subseteq sent

\* ------------------------------------------------------------- claims
Retryable == {RateLimited, NetworkError, TimedOut} \cup GatewayErrors
EmptySet == [kind |-> "iter", items |-> {}]

\* C1: when a delivery request is answered 204, the records that leave the
\* queue are exactly those of the payload that was sent; records enqueued
\* while the request was in flight stay queued.
C1_RemovedExactlySent ==
    [][\A t \in Tasks :
          (pc[t] = "post" /\ Respond(t, OK204, <<>>))
              => message_queue' = Without(message_queue, Range(payload[t]))]_vars

\* C2: the queue holds the records in the order of the log() calls, every
\* payload lists them in that order, and a record is never sent for the
\* first time after a record that was logged later has been sent.
C2_FifoOrder ==
    /\ [](Increasing(message_queue) /\ \A t \in Tasks : Increasing(payload[t]))
    /\ [][\A a \in sent' \ sent : \A b \in sent : b < a]_vars

\* C2 witness: a retry carries two records after an older record was sent
\* in an earlier request.
C2_Witness ==
    \E t \in Tasks :
        /\ pc[t] = "post"
        /\ retries[t] > 0
        /\ Len(payload[t]) >= 2
        /\ \E x \in sent : x < payload[t][1]

\* C3: when a delivery attempt has used up its retries, the records of its
\* payload are removed from the queue (and so are never sent again).
C3_DroppedAfterRetries ==
    [][\A t \in Tasks, status \in Retryable :
          (pc[t] = "post" /\ retries[t] = max_retries /\ Respond(t, status, <<>>))
              => Range(payload[t]) \cap Range(message_queue') = {}]_vars

\* C4: a request carries exactly the first min(n, 10) of the n queued
\* records, never more than 10, and a 204 to a request whose records are
\* still the head of the queue leaves exactly the records behind them, in
\* their order.
C4_FirstTenSent ==
    /\ [](\A t \in Tasks : Len(payload[t]) <= 10)
    /\ [][\A t \in Tasks :
            /\ (pc[t] # "post" /\ pc'[t] = "post")
                  => payload'[t] = SubSeq(message_queue, 1, Min(Len(message_queue), 10))
            /\ (/\ pc[t] = "post"
                /\ payload[t] = SubSeq(message_queue, 1, Min(Len(message_queue), 10))
                /\ Respond(t, OK204, <<>>))
                  => message_queue' = SubSeq(message_queue,
                                             Min(Len(message_queue), 10) + 1,
                                             Len(message_queue))]_vars

\* C4 witness: 12 records were queued, 10 were sent and removed, 2 are left.
C4_Witness ==
    /\ message_queue = <<11, 12>>
    /\ sent = 1..10
    /\ \A t \in Tasks : pc[t] # "post"

\* C5: a running batch task that wakes starts a flush exactly if the queue
\* holds batch_size records or more, or holds a record and batch_interval
\* has passed since the last 204 (since construction before the first one).
C5_FlushCondition ==
    [][\A t \in Workers :
          (pc[t] \in {"ready", "nap"} /\ _running /\ WorkerRun(t))
              => ((pc'[t] \in {"post", "lock"})
                    <=> \/ Len(message_queue) >= batch_size
                        \/ (Len(message_queue) > 0 /\ since_ok >= batch_interval))]_vars

\* C5 witness: a flush of batch_size records started although no time has
\* passed since construction.
C5_Witness ==
    \E t \in Workers :
        /\ pc[t] = "post"
        /\ retries[t] = 0
        /\ Len(payload[t]) = batch_size
        /\ since_ok = 0
        /\ cleanups = 0

\* C6: a 429 with retries left puts the task into one sleep of retry_after
\* (retry_delay if the body has none); the sleep is not restarted, it ends
\* only when its time is over (or the task is cancelled), and what follows
\* it is the next request or the end of the attempt, not another sleep.
C6_RateLimitSleep ==
    [][\A t \in Tasks :
          /\ \A ra \in RetryAfterValues :
                (pc[t] = "post" /\ retries[t] < max_retries /\ Respond(t, RateLimited, ra))
                    => /\ pc'[t] = "backoff"
                       /\ sleep_left'[t] = IF ra = <<>> THEN retry_delay ELSE ra[1]
          /\ (pc[t] = "backoff" /\ pc'[t] = "backoff")
                => sleep_left'[t] <= sleep_left[t]
          /\ (pc[t] = "backoff" /\ pc'[t] # "backoff")
                => \/ (t \in Workers /\ pc'[t] = "done")
                   \/ (sleep_left[t] = 0 /\ pc'[t] \in {"post", "nap", "idle", "await_task"})]_vars

\* C6 witness: a first request was answered 429 with retry_after = 2.
C6_Witness ==
    \E t \in Tasks : pc[t] = "backoff" /\ retries[t] = 0 /\ sleep_left[t] = 2

\* C7: a cleanup() called after cleanup() has returned changes nothing in
\* the sink: no request, no session, no field.
C7_CleanupIdempotent ==
    [][(closed /\ Cleanup(MaxCleanup))
          => UNCHANGED <<_running, message_queue, batch_age, _session, _batch_task,
                         _lock, pc, retries, payload, sleep_left, sent>>]_vars

\* C8: once cleanup() has returned, no batch task of the sink is active.
C8_NoWorkerAfterCleanup ==
    closed => \A w \in Workers : pc[w] \in {"none", "done"}

\* C9: once a validation request of initialize() has been answered 404 the
\* sink is stopped for good: no batch task is created, a log() leaves the
\* queue as it is, no delivery request is made, and a _log_to_all whose
\* message is not suppressed still calls log() of every registered sink.
C9_StoppedAfter404 ==
    [][not_found =>
          /\ ~_running /\ ~_running'
          /\ created' = created
          /\ _batch_task' = _batch_task
          /\ message_queue' = message_queue
          /\ \A t \in Tasks : pc'[t] = "post" => pc[t] = "post"
          /\ \A msg \in Messages, failing \in SUBSET {"local", "asio"} :
                (process_message(msg) # <<>> /\ LogToAll(MaxAppRecords, msg, failing))
                    => invoked' = loggers]_vars

\* C10: a _log_to_all whose message is not suppressed calls log() of each
\* registered sink exactly once, in registration order, whichever of them
\* raise; the call that reaches a running Discord sink appends the record
\* to its queue.
C10_EverySinkInvoked ==
    [][\A msg \in Messages, failing \in SUBSET {"local", "asio"} :
          (process_message(msg) # <<>> /\ LogToAll(MaxAppRecords, msg, failing))
              => /\ invoked' = loggers
                 /\ caught' = failing \cap Range(loggers)
                 /\ ("discord" \in Range(loggers) /\ _running)
                        => message_queue' = Append(message_queue, records + 1)]_vars

\* C10 witness: log() of the first of three sinks raised, the two after it
\* were called, and the record is in the queue of the Discord sink.
C10_Witness ==
    /\ loggers = <<"local", "asio", "discord">>
    /\ invoked = loggers
    /\ caught = {"local"}
    /\ records > 0
    /\ message_queue # <<>>
    /\ message_queue[Len(message_queue)] = records

\* C13: the constructor called with an empty enabled_loggers set raises,
\* whatever the other arguments are, and there is no configuration.
C13_EmptySetRaises ==
    [][(config = NoConfig /\ requested' = EmptySet)
          => \A c \in SettingsInputs :
                Construct(EmptySet, c) => (raised' /\ config' = NoConfig)]_vars

\* C13 witness: the constructor was called with an empty set and raised.
C13_Witness ==
    /\ requested = EmptySet
    /\ raised
    /\ config = NoConfig

\* C19: an update that raises leaves every field of the configuration as it
\* was before the call.
C19_UpdateAllOrNothing ==
    [][(config # NoConfig /\ raised')
          => \A kwargs \in KwargsInputs :
                Update(kwargs) => (config' = config /\ enabled_loggers' = enabled_loggers)]_vars

\* C20: the constructor called with a set that holds a name which is not the
\* name of a sink type raises, also when the set holds known names too.
C20_UnknownNameRaises ==
    [][(/\ config = NoConfig
        /\ requested'.kind = "iter"
        /\ \E i \in requested'.items : i.is_str /\ strip_upper(i.text) \notin member_names)
          => \A c \in SettingsInputs :
                Construct(requested', c) => (raised' /\ config' = NoConfig)]_vars

\* C11: a logging call whose message matches a filter pattern calls log()
\* of no sink and leaves the queue of the Discord sink as it is, with or
\* without an exception attached, and returns to its caller.
C11_FilteredReachesNoSink ==
    [][(stage = "ready" /\ records' = records + 1) =>
       /\ \A msg \in Messages, failing \in SUBSET {"local", "asio"} :
            (process_message(msg) = <<>> /\ LogToAll(MaxAppRecords, msg, failing))
                => /\ invoked' = <<>>
                   /\ message_queue' = message_queue
                   /\ ~escaped'
       /\ \A msg \in Messages \cup {<<>>}, err \in ErrorTexts,
             failing \in SUBSET {"local", "asio"} :
            (/\ \E i \in 1..Len(msg) : msg[i] \in filter_patterns
             /\ LogException(MaxAppRecords, msg, err, failing))
                => /\ invoked' = <<>>
                   /\ message_queue' = message_queue
                   /\ ~escaped']_vars

\* C11 witness: a call was made on a logger with three sinks, the Discord
\* sink running, and log() of none of them was called.
C11_Witness ==
    /\ loggers = <<"local", "asio", "discord">>
    /\ _running
    /\ records > 0
    /\ invoked = <<>>
    /\ message_queue = <<>>
    /\ sent = {}

\* C12: no logging call of the UnifiedLogger raises to its caller.
C12_NothingEscapes ==
    ~escaped

\* C14: log() of the Discord sink can be called in every state and is one
\* step that moves no task and leaves the lock alone; on a running sink it
\* appends exactly the new record to the tail of the queue.
C14_LogNeverWaits ==
    /\ [](records < MaxRecords => ENABLED Log(MaxRecords))
    /\ [][Log(MaxRecords)
            => /\ pc' = pc
               /\ _lock' = _lock
               /\ message_queue' = IF _running
                                   THEN Append(message_queue, records + 1)
                                   ELSE message_queue]_vars

\* C14 witness: the batch task holds the lock in a backoff sleep, and the
\* last record was logged after the request was made.
C14_Witness ==
    \E w \in Workers :
        /\ _lock = w
        /\ pc[w] = "backoff"
        /\ message_queue # <<>>
        /\ message_queue[Len(message_queue)] = records
        /\ records \notin Range(payload[w])

\* C15: at most one batch task of the Discord sink is active.
C15_OneWorker ==
    Cardinality({w \in Workers : pc[w] \notin {"none", "done"}}) <= 1

\* C16: when the constructor of one enabled sink raises in
\* AsyncLogger.initialize, every other enabled sink is still set up: local
\* and asio are in the registry, and initialize() of the Discord sink is
\* called.
C16_OnlyFailedSinkOmitted ==
    [][\A broken \in {{}, {"local"}, {"asio"}}, handlers_ok \in BOOLEAN :
          AppInitialize(broken, handlers_ok)
              => /\ \A n \in (enabled_loggers \cap {"local", "asio"}) \ broken :
                        n \in Range(loggers')
                 /\ "discord" \in enabled_loggers => inits' > 0]_vars

\* C17: AsyncLogger.initialize does not return a UnifiedLogger with an
\* empty registry.
C17_NoEmptyRegistry ==
    stage = "ready" => loggers # <<>>

\* C18: AsyncLogger.cleanup calls cleanup() of the sinks in the reverse of
\* the order they were registered in.
C18_ReverseTeardown ==
    \A i, j \in 1..Len(torn_down) :
        i < j => \E a, b \in 1..Len(loggers) :
                    /\ loggers[a] = torn_down[i]
                    /\ loggers[b] = torn_down[j]
                    /\ a > b

\* C21: a delivery request answered 400 ends the attempt: no retry of it is
\* scheduled, and the records of its payload leave the queue.
C21_FatalStatusDropsBatch ==
    [][\A t \in Tasks :
          (pc[t] = "post" /\ Respond(t, BadRequest, <<>>))
              => /\ pc'[t] \notin {"post", "backoff", "recover"}
                 /\ Range(payload[t]) \cap Range(message_queue') = {}]_vars

\* C22: a 404 or 401, to the validation request or to a delivery request,
\* stops the sink: it is not running afterwards and the task schedules no
\* further request.
C22_DisabledAfter404Or401 ==
    [][\A status \in {NotFound, Unauthorized} :
          /\ Validated(status) => ~_running'
          /\ \A t \in Tasks :
                (pc[t] = "post" /\ Respond(t, status, <<>>))
                    => /\ ~_running'
                       /\ pc'[t] \notin {"post", "backoff", "recover"}]_vars

\* C23: cleanup() first stops the sink; it makes one delivery attempt if the
\* queue holds a record and none if it is empty, and no other step starts
\* an attempt of the calling task; an attempt that ends in failure goes on
\* to the batch task like one that ends in success; the batch task is
\* cancelled when the attempt has ended, cleanup() waits until it is done,
\* and the session is given up in the step that returns, the batch task
\* being done before it.
C23_CleanupOrder ==
    /\ [](pc[Main] = "await_task" => (_batch_task # 0 /\ pc[_batch_task] = "done"))
    /\ [][/\ Cleanup(MaxCleanup)
                => /\ ~_running'
                   /\ IF message_queue = <<>>
                      THEN pc'[Main] \in {"await_task", "idle"} /\ sent' = sent
                      ELSE /\ pc'[Main] = "post"
                           /\ retries'[Main] = 0
                           /\ \A w \in Workers : pc'[w] = pc[w]
                           /\ _session' = "open"
          /\ (pc[Main] # "post" /\ pc'[Main] = "post" /\ retries'[Main] = 0)
                => cleanups' = cleanups + 1
          /\ \A status \in DeliveryStatuses \ {OK204} :
                (pc[Main] = "post" /\ retries[Main] = max_retries
                    /\ Respond(Main, status, <<>>))
                    => /\ pc'[Main] \in {"await_task", "idle"}
                       /\ _batch_task # 0 => pc'[_batch_task] = "done"
          /\ (pc[Main] # "await_task" /\ pc'[Main] = "await_task")
                => \/ pc[Main] \in {"post", "backoff", "recover"}
                   \/ (pc[Main] = "idle" /\ message_queue = <<>>)
          /\ (closed' /\ ~closed)
                => /\ pc'[Main] = "idle"
                   /\ _session' = "None"
                   /\ _batch_task # 0 => pc[_batch_task] = "done"]_vars

\* C23 witness: the final attempt of cleanup() has used up its retries, its
\* record is still queued, the batch task has been cancelled and cleanup()
\* waits for it with the session still open.
C23_Witness ==
    /\ pc[Main] = "await_task"
    /\ ~_running
    /\ message_queue # <<>>
    /\ _batch_task # 0
    /\ pc[_batch_task] = "done"
    /\ _session = "open"

\* C24: a log() on a sink that is stopped (not yet initialized, disabled by
\* a failed validation, or closed by cleanup()) leaves the queue as it is.
C24_StoppedLogIsNoOp ==
    [][(Log(MaxRecords) /\ (inits = 0 \/ ~_running \/ closed))
          => message_queue' = message_queue]_vars

\* C25: the retries argument of a _send_batch never exceeds max_retries; the
\* first request of an attempt is made with retries = 0 and every later one
\* with one more than the request before it, whatever that was answered
\* with; and any answer but 204 to the request made with max_retries ends
\* the attempt. An attempt makes max_retries + 1 requests at most.
C25_RetryBudget ==
    /\ [](\A t \in Tasks : retries[t] \in 0..max_retries)
    /\ [][\A t \in Tasks :
            /\ (pc[t] \in {"backoff", "recover"} /\ pc'[t] = "post")
                  => retries'[t] = retries[t] + 1
            /\ (pc[t] \notin {"post", "backoff", "recover"} /\ pc'[t] = "post")
                  => retries'[t] = 0
            /\ (pc[t] \in {"post", "backoff", "recover"}
                    /\ pc'[t] \in {"post", "backoff", "recover"})
                  => retries'[t] >= retries[t]
            /\ \A status \in Retryable, ra \in RetryAfterValues :
                  (pc[t] = "post" /\ Respond(t, status, ra))
                      => IF retries[t] < max_retries
                         THEN pc'[t] \in {"backoff", "recover"} /\ retries'[t] = retries[t]
                         ELSE pc'[t] \notin {"post", "backoff", "recover"}]_vars

\* C25 witness: the last request the budget allows is in flight.
C25_Witness ==
    \E t \in Tasks :
        /\ pc[t] = "post"
        /\ retries[t] = max_retries
        /\ payload[t] # <<>>

\* C26: the request made after a retry sleep carries the records the
\* request before it carried.
C26_RetrySamePrefix ==
    [][\A t \in Tasks :
          (pc[t] \in {"backoff", "recover"} /\ pc'[t] = "post")
              => payload'[t] = payload[t]]_vars

\* C27: at most one task is in a delivery attempt (a request in flight or a
\* retry sleep).
C27_OneAttemptAtATime ==
    Cardinality({t \in Tasks : pc[t] \in {"post", "backoff", "recover"}}) <= 1

\* C28: a 502, 503 or 504 to the request made with retries = k, k below
\* max_retries, puts the task into a sleep of retry_delay * (k + 1).
C28_GatewayBackoff ==
    [][\A t \in Tasks, status \in GatewayErrors :
          (pc[t] = "post" /\ retries[t] < max_retries /\ Respond(t, status, <<>>))
              => /\ pc'[t] = "backoff"
                 /\ sleep_left'[t] = retry_delay * (retries[t] + 1)
                 /\ retries'[t] = retries[t]]_vars

\* C28 witness: the third request of an attempt was answered with a gateway
\* error and the task sleeps three times retry_delay.
C28_Witness ==
    \E t \in Tasks :
        /\ pc[t] = "backoff"
        /\ retries[t] = 2
        /\ sleep_left[t] = 3 * retry_delay

\* C29: a delivery request that fails on the network or times out, made
\* with retries below max_retries, puts the task into the sleep of the
\* except clause, and a timeout leads to the state a connection failure
\* leads to; when the sleep is over the session is given up, and the next
\* request, if the queue still holds a record, is the first one on a new
\* session.
C29_NewSessionAfterFailure ==
    [][\A t \in Tasks :
          /\ \A status \in {NetworkError, TimedOut} :
                (pc[t] = "post" /\ retries[t] < max_retries /\ Respond(t, status, <<>>))
                    => /\ pc'[t] = "recover"
                       /\ sleep_left'[t] = retry_delay
                       /\ Respond(t, NetworkError, <<>>)
          /\ (pc[t] = "recover" /\ pc'[t] = "post")
                => /\ recreated'[t]
                   /\ _session' = "open"
                   /\ retries'[t] = retries[t] + 1
          /\ (pc[t] = "recover" /\ pc'[t] \notin {"recover", "post"} /\ Resume(t))
                => (message_queue = <<>> /\ _session' = "None")]_vars

\* C29 witness: a retry is in flight on a session of its own, created after
\* the session that the validation request had opened was given up.
C29_Witness ==
    \E t \in Workers :
        /\ pc[t] = "post"
        /\ retries[t] > 0
        /\ recreated[t]
        /\ _session = "open"

\* the terminal level of c is below its log level, with terminal output on
TerminalBelow(c) == c.enable_terminal_output /\ c.terminal_level < c.log_level
\* c with the terminal level set to the log level
Levelled(c) == [c EXCEPT !.terminal_level = c.log_level]

\* C30: in a configuration left by a constructor call or an update that did
\* not raise, terminal output enabled implies terminal_level >= log_level;
\* and a call that can be made, and that finds the terminal level below the
\* log level with terminal output enabled, raises exactly if it raises with
\* the terminal level given as the log level, and when it does not raise it
\* leaves the terminal level at the log level and every other field as
\* given.
C30_TerminalLevelRaised ==
    /\ (config # NoConfig /\ ~raised)
          => (config[1].enable_terminal_output
                  => config[1].terminal_level >= config[1].log_level)
    /\ (config = NoConfig /\ ~raised)
          => \A types \in EnabledInputs, c \in SettingsInputs :
                TerminalBelow(c)
                    => \E o \in {post_init(types, c)} :
                          /\ o.ok = post_init(types, Levelled(c)).ok
                          /\ o.ok => o.cfg = Levelled(c)
    /\ (config # NoConfig)
          => \A kwargs \in KwargsInputs :
                \A o \in {set_attrs([ok |-> TRUE, enabled |-> enabled_loggers,
                                     cfg |-> config[1]], kwargs)} :
                    (o.ok /\ TerminalBelow(o.cfg))
                        => \E u \in {update(enabled_loggers, config[1], kwargs)} :
                              /\ u.ok = validate_config(o.enabled, Levelled(o.cfg)).ok
                              /\ u.ok => u.cfg = Levelled(o.cfg)

\* C30 witness: an update that did not raise has left terminal output
\* enabled with a terminal level that only a raise to the log level gives.
C30_Witness ==
    /\ config # NoConfig
    /\ ~raised
    /\ requested = NoTypes
    /\ config[1].enable_terminal_output
    /\ config[1].log_level = INFO
    /\ config[1].terminal_level = INFO

\* C31: a configuration, once constructed, satisfies the validation rules
\* in every state: a sink is enabled, the Discord sink is enabled only with
\* a webhook URL, and both levels are logging levels.
C31_AlwaysValid ==
    config # NoConfig
        => /\ enabled_loggers # {}
           /\ "discord" \in enabled_loggers
                 => config[1].discord_webhook_url \notin {Absent, ""}
           /\ config[1].log_level \in valid_levels
           /\ config[1].terminal_level \in valid_levels

\* C37: when a temp_config block or a with_debug context ends, every field
\* of the configuration has the value it had when the block was entered.
C37_ScopeRoundTrip ==
    [][(scope # <<>> /\ scope' = <<>>)
          => /\ config' = <<scope[1].cfg>>
             /\ enabled_loggers' = scope[1].enabled]_vars

\* C38: the constructor called with a non-empty set of LoggerType members,
\* and with settings that are valid for these sinks, does not raise and
\* leaves exactly these sinks enabled.
C38_MembersAccepted ==
    [][(/\ config = NoConfig
        /\ requested'.kind = "iter"
        /\ requested'.items # {}
        /\ \A i \in requested'.items : ~i.is_str)
          => \A c \in SettingsInputs :
                (/\ validate_config({i.text : i \in requested'.items}, c).ok
                 /\ Construct(requested', c))
                    => /\ ~raised'
                       /\ enabled_loggers' = {i.text : i \in requested'.items}]_vars

\* C32: a record is in the payload of at most one request that is answered
\* 204: no record of a payload that is answered 204 was in a payload that
\* was answered 204 before.
C32_DeliveredOnce ==
    [][\A t \in Tasks :
          (pc[t] = "post" /\ Respond(t, OK204, <<>>))
              => Range(payload[t]) \cap delivered = {}]_vars

\* C33: with an endpoint that answers every request with 204, once
\* cleanup() has returned the queue is empty and every record that was
\* sent has been delivered.
C33_DrainedOnReturn ==
    closed => (message_queue = <<>> /\ sent \subseteq delivered)

\* C34: while the sink is running with its batch task, a record that is in
\* the queue eventually leaves it, and it leaves it only in a step in which
\* a 204 answer to a delivery request is processed.
C34_EventuallyRemoved ==
    /\ \A r \in 1..MaxLiveRecords :
          (r \in Range(message_queue) /\ _running /\ _batch_task # 0)
              ~> (r \notin Range(message_queue))
    /\ [][\A r \in Range(message_queue) \ Range(message_queue') :
              \E t \in Tasks : pc[t] = "post" /\ Respond(t, OK204, <<>>)]_vars

\* C34 witness: the batch task has delivered all the records there were,
\* fewer than a full batch, and the queue is empty.
C34_Witness ==
    /\ _running
    /\ _batch_task # 0
    /\ records > 0
    /\ records < batch_size
    /\ delivered = 1..records
    /\ message_queue = <<>>

\* C35: when AsyncLogger.initialize has failed after it initialized the
\* Discord sink, no batch task of the sink is alive and the sink holds no
\* session.
C35_NothingLeftAfterFailure ==
    (stage = "failed" /\ "discord" \in Range(loggers))
        => /\ \A t \in Workers : pc[t] \in {"none", "done"}
           /\ _session = "None"

\* C36: when UnifiedLogger.cleanup() has returned, the Discord sink that is
\* registered in the logger is stopped, none of its batch tasks is alive
\* and it holds no session.
C36_SinkCleanedUp ==
    (stage = "exited" /\ "discord" \in Range(loggers))
        => /\ ~_running
           /\ \A t \in Workers : pc[t] \in {"none", "done"}
           /\ _session = "None"

====
